---------------------------- MODULE Spec2Model ----------------------------
(***************************************************************************)
(* Model of blender-mesh-to-json.py: the operator MeshToJSON.execute, which *)
(* reads the host's active object, assembles the mesh_json dictionary and   *)
(* prints it between a START_MESH_JSON and an END_MESH_JSON line.           *)
(*                                                                         *)
(* Python values are modelled as follows.  A value that may be None is a    *)
(* record with a boolean isNone field.  Floats are integers; the two        *)
(* infinities of the bounding-box reduction are extended numbers (records   *)
(* with a kind).  A name that os.path.splitext cuts is a sequence of        *)
(* one-character strings.  Sequence positions are 1-based here and 0-based  *)
(* in the source: loop variable i of the source reads element i + 1.        *)
(***************************************************************************)
EXTENDS Integers, Sequences, FiniteSets, TLC

VARIABLES
    active_object,  \* bpy.context.active_object, read at line 36
    filepath,       \* bpy.data.filepath, read at lines 155 and 157
    pc,             \* position of execute: "start", "assembled", "started",
                    \* "dumped", "finished" or "raised"
    mesh_json,      \* the dictionary of lines 37-55 once it is assembled
    stdout,         \* the lines printed so far, each a sequence of tokens
    raised          \* the exception that left execute, "none" if none did

vars == <<active_object, filepath, pc, mesh_json, stdout, raised>>

---------------------------------------------------------------------------
(* Bounds of the model. *)

MaxFaces == 2       \* most polygons of a mesh
MaxVerts == 2       \* most vertices of a mesh in the skinning scenes
MaxNameLen == 3     \* longest image name
CoordMax == 1       \* local bounding-box coordinates lie in -CoordMax..CoordMax

---------------------------------------------------------------------------
(* Python values. *)

None == [isNone |-> TRUE]
Some(x) == [isNone |-> FALSE, val |-> x]

Float(n) == [kind |-> "float", v |-> n]
PosInf == [kind |-> "+inf", v |-> 0]
NegInf == [kind |-> "-inf", v |-> 0]

\* a < b on floats that may be infinite
FloatLess(a, b) ==
    CASE a.kind = "+inf" -> FALSE
      [] b.kind = "-inf" -> FALSE
      [] a.kind = "-inf" -> TRUE
      [] b.kind = "+inf" -> TRUE
      [] OTHER -> a.v < b.v

\* the builtins, on two arguments: the first one wins a tie
PyMin(a, b) == IF FloatLess(b, a) THEN b ELSE a
PyMax(a, b) == IF FloatLess(a, b) THEN b ELSE a

Range(s) == {s[k] : k \in 1..Len(s)}

RECURSIVE Sum(_)
Sum(s) == IF s = <<>> THEN 0 ELSE Head(s) + Sum(Tail(s))

\* every sequence over S of length lo..hi
SeqsOf(S, lo, hi) == UNION {[1..n -> S] : n \in lo..hi}

---------------------------------------------------------------------------
(* os.path.splitext (posix): the extension starts at the last dot of the   *)
(* last path component, unless only dots precede it in that component.     *)

\* str.rfind, 1-based: 0 when ch does not occur
RFind(p, ch) ==
    LET at == {k \in 1..Len(p) : p[k] = ch}
    IN  IF at = {} THEN 0 ELSE CHOOSE k \in at : \A j \in at : j <= k

splitext(p) ==
    LET sepIndex == RFind(p, "/")
        dotIndex == RFind(p, ".")
    IN  IF /\ dotIndex > sepIndex
           /\ \E k \in (sepIndex + 1)..(dotIndex - 1) : p[k] # "."
        THEN <<SubSeq(p, 1, dotIndex - 1), SubSeq(p, dotIndex, Len(p))>>
        ELSE <<p, <<>>>>

---------------------------------------------------------------------------
(* The host's view of a polygon and the arithmetic of mathutils.           *)

\* face.loop_indices: the range loop_start .. loop_start + loop_total - 1,
\* where loop_total is the number of vertices of the face
loop_indices(face) ==
    [k \in 1..Len(face.vertices) |-> face.loop_start + k - 1]

\* mesh.matrix_world * corner: a 4x4 matrix applied to a 3D vector taken as
\* (x, y, z, 1); the result is the first three components
MatVec(m, c) ==
    [r \in 1..3 |-> m[r][1] * c[1] + m[r][2] * c[2] + m[r][3] * c[3] + m[r][4]]

---------------------------------------------------------------------------
(* execute, lines 37-150: the assembly of mesh_json.                       *)

\* lines 37-55
InitialJson ==
    [vertex_positions |-> <<>>,
     num_vertices_in_each_face |-> <<>>,
     vertex_position_indices |-> <<>>,
     vertex_normals |-> <<>>,
     vertex_normal_indices |-> <<>>,
     vertex_uvs |-> Some(<<>>),
     vertex_uv_indices |-> Some(<<>>),
     texture_name |-> None,
     armature_name |-> None,
     vertex_group_indices |-> Some(<<>>),
     vertex_group_weights |-> Some(<<>>),
     num_groups_for_each_vertex |-> Some(<<>>),
     bounding_box |-> [lower_left_front |-> <<>>, upper_right_back |-> <<>>]]

\* the truth value of mesh.data.uv_textures (lines 60, 80, 109)
HasUVTextures(mesh) == mesh.data.uv_textures # <<>>

\* lines 57-62
SetNames(mesh, doc) ==
    [doc EXCEPT
        !.armature_name =
            IF ~mesh.parent.isNone /\ mesh.parent.type = "ARMATURE"
            THEN Some(mesh.parent.name) ELSE @,
        !.texture_name =
            IF HasUVTextures(mesh)
            THEN Some(splitext(mesh.data.uv_textures[1].data[1].image.val)[1])
            ELSE @]

\* LoopBody with the loop counter i stored as the normal index
LoopBodyNormalPerLoop(mesh, face, index, i, doc) ==
    [doc EXCEPT
        !.vertex_position_indices = Append(@, face.vertices[i + 1]),
        !.vertex_normal_indices = Append(@, i),
        !.vertex_uv_indices =
            IF HasUVTextures(mesh)
            THEN Some(Append(@.val, loop_indices(face)[i + 1])) ELSE @]

\* LoopBody with the number of loops seen so far stored as the UV index
LoopBodyUVCounter(mesh, face, index, i, doc) ==
    [doc EXCEPT
        !.vertex_position_indices = Append(@, face.vertices[i + 1]),
        !.vertex_normal_indices = Append(@, index),
        !.vertex_uv_indices =
            IF HasUVTextures(mesh)
            THEN Some(Append(@.val, Len(doc.vertex_position_indices))) ELSE @]

\* lines 73-81: the body of the loop over the vertices of one face
LoopBody(mesh, face, index, i, doc) ==
    [doc EXCEPT
        !.vertex_position_indices = Append(@, face.vertices[i + 1]),
        !.vertex_normal_indices = Append(@, index),
        !.vertex_uv_indices =
            IF HasUVTextures(mesh)
            THEN Some(Append(@.val, loop_indices(face)[i + 1])) ELSE @]

\* line 72: for i in range(num_vertices_in_face)
RECURSIVE FaceLoop(_, _, _, _, _)
FaceLoop(mesh, face, index, i, doc) ==
    IF i >= Len(face.vertices) THEN doc
    ELSE FaceLoop(mesh, face, index, i + 1, LoopBody(mesh, face, index, i, doc))

\* FaceBody with every face counted as a quad
FaceBodyQuadsOnly(mesh, face, index, doc) ==
    LET counted == [doc EXCEPT !.num_vertices_in_each_face = Append(@, 4)]
        looped == FaceLoop(mesh, face, index, 0, counted)
    IN  [looped EXCEPT !.vertex_normals =
            @ \o <<face.normal[1], face.normal[2], face.normal[3]>>]

\* lines 69-86: the body of the loop over the faces
FaceBody(mesh, face, index, doc) ==
    LET counted == [doc EXCEPT !.num_vertices_in_each_face =
                                    Append(@, Len(face.vertices))]
        looped == FaceLoop(mesh, face, index, 0, counted)
    IN  [looped EXCEPT !.vertex_normals =
            @ \o <<face.normal[1], face.normal[2], face.normal[3]>>]

\* lines 67-88: index counts the faces from 0
RECURSIVE FacesFrom(_, _, _)
FacesFrom(mesh, index, doc) ==
    IF index >= Len(mesh.data.polygons) THEN doc
    ELSE FacesFrom(mesh, index + 1,
                   FaceBody(mesh, mesh.data.polygons[index + 1], index, doc))

FlattenFaces(mesh, doc) == FacesFrom(mesh, 0, doc)

\* lines 94-107: the body of the loop over the vertices
VertBody(vert, doc) ==
    LET num_groups == Len(vert.groups)
    IN  [doc EXCEPT
            !.vertex_positions = @ \o <<vert.co[1], vert.co[2], vert.co[3]>>,
            !.vertex_group_indices =
                Some(@.val \o [k \in 1..num_groups |-> vert.groups[k].group]),
            !.vertex_group_weights =
                Some(@.val \o [k \in 1..num_groups |-> vert.groups[k].weight]),
            !.num_groups_for_each_vertex =
                IF ~doc.armature_name.isNone
                THEN Some(Append(@.val, num_groups)) ELSE @]

\* line 93: for vert in mesh.data.vertices
RECURSIVE VertsFrom(_, _, _)
VertsFrom(mesh, k, doc) ==
    IF k > Len(mesh.data.vertices) THEN doc
    ELSE VertsFrom(mesh, k + 1, VertBody(mesh.data.vertices[k], doc))

ExtractVertices(mesh, doc) == VertsFrom(mesh, 1, doc)

\* lines 109-112
RECURSIVE UVsFrom(_, _, _)
UVsFrom(data, k, uvs) ==
    IF k > Len(data) THEN uvs
    ELSE UVsFrom(data, k + 1, uvs \o <<data[k].uv[1], data[k].uv[2]>>)

CollectUVs(mesh, doc) ==
    IF HasUVTextures(mesh)
    THEN [doc EXCEPT !.vertex_uvs =
            Some(UVsFrom(mesh.data.uv_layers[1].data, 1, @.val))]
    ELSE doc

\* FieldPolicy without line 117
FieldPolicyKeepsCounts(doc) ==
    LET groups == IF doc.armature_name.isNone
                  THEN [doc EXCEPT !.vertex_group_indices = None,
                                   !.vertex_group_weights = None]
                  ELSE doc
    IN  IF groups.texture_name.isNone
        THEN [groups EXCEPT !.vertex_uvs = None, !.vertex_uv_indices = None]
        ELSE groups

\* FieldPolicy without line 121
FieldPolicyKeepsUVIndices(doc) ==
    LET groups == IF doc.armature_name.isNone
                  THEN [doc EXCEPT !.vertex_group_indices = None,
                                   !.vertex_group_weights = None,
                                   !.num_groups_for_each_vertex = None]
                  ELSE doc
    IN  IF groups.texture_name.isNone
        THEN [groups EXCEPT !.vertex_uvs = None]
        ELSE groups

\* lines 114-121
FieldPolicy(doc) ==
    LET groups == IF doc.armature_name.isNone
                  THEN [doc EXCEPT !.vertex_group_indices = None,
                                   !.vertex_group_weights = None,
                                   !.num_groups_for_each_vertex = None]
                  ELSE doc
    IN  IF groups.texture_name.isNone
        THEN [groups EXCEPT !.vertex_uvs = None, !.vertex_uv_indices = None]
        ELSE groups

\* CornerBody without line 140: the corner stays in local space
CornerBodyLocal(mesh, local, box) ==
    [lower_left_front |->
        [a \in 1..3 |-> PyMin(box.lower_left_front[a], Float(local[a]))],
     upper_right_back |->
        [a \in 1..3 |-> PyMax(box.upper_right_back[a], Float(local[a]))]]

\* lines 139-147: the body of the loop over the corners; box is the pair
\* lower_left_front, upper_right_back
CornerBody(mesh, local, box) ==
    LET corner == MatVec(mesh.matrix_world, local)
    IN  [lower_left_front |->
            [a \in 1..3 |-> PyMin(box.lower_left_front[a], Float(corner[a]))],
         upper_right_back |->
            [a \in 1..3 |-> PyMax(box.upper_right_back[a], Float(corner[a]))]]

\* line 134: for corner in mesh.bound_box
RECURSIVE CornersFrom(_, _, _)
CornersFrom(mesh, k, box) ==
    IF k > Len(mesh.bound_box) THEN box
    ELSE CornersFrom(mesh, k + 1, CornerBody(mesh, mesh.bound_box[k], box))

\* lines 131-150
BoundingBox(mesh, doc) ==
    [doc EXCEPT !.bounding_box =
        CornersFrom(mesh, 1,
            [lower_left_front |-> <<PosInf, PosInf, PosInf>>,
             upper_right_back |-> <<NegInf, NegInf, NegInf>>])]

\* lines 37-150 on a mesh that raises nothing
Assembled(mesh) ==
    BoundingBox(mesh,
        FieldPolicy(
            CollectUVs(mesh,
                ExtractVertices(mesh,
                    FlattenFaces(mesh,
                        SetNames(mesh, InitialJson))))))

---------------------------------------------------------------------------
(* json.dumps (line 156): None becomes null, an infinite float becomes the *)
(* token Infinity or -Infinity, and a value that is no Python number,      *)
(* string, list, dict or None raises TypeError.                            *)

JsonFloat(f) ==
    CASE f.kind = "+inf" -> <<"Infinity">>
      [] f.kind = "-inf" -> <<"-Infinity">>
      [] OTHER -> <<"number", f.v>>

JsonArray(x) == IF x.isNone THEN <<"null">> ELSE <<"array", x.val>>

JsonString(x) == IF x.isNone THEN <<"null">> ELSE <<"string", x.val>>

\* the only values of mesh_json that the host hands over untouched and that
\* need not be numbers are the vertex-group weights
Encodable(doc) ==
    IF doc.vertex_group_weights.isNone THEN TRUE
    ELSE \A k \in 1..Len(doc.vertex_group_weights.val) :
            doc.vertex_group_weights.val[k].kind = "float"

dumps(doc) ==
    [doc EXCEPT
        !.vertex_uvs = JsonArray(@),
        !.vertex_uv_indices = JsonArray(@),
        !.texture_name = JsonString(@),
        !.armature_name = JsonString(@),
        !.vertex_group_indices = JsonArray(@),
        !.vertex_group_weights =
            IF @.isNone THEN <<"null">>
            ELSE <<"array", [k \in 1..Len(@.val) |-> JsonFloat(@.val[k])]>>,
        !.num_groups_for_each_vertex = JsonArray(@),
        !.bounding_box =
            [lower_left_front |-> [a \in 1..Len(@.lower_left_front) |->
                                        JsonFloat(@.lower_left_front[a])],
             upper_right_back |-> [a \in 1..Len(@.upper_right_back) |->
                                        JsonFloat(@.upper_right_back[a])]]]

---------------------------------------------------------------------------
(* The host context execute may find: the scenes of the model.             *)

IdentityMatrix ==
    <<<<1, 0, 0, 0>>, <<0, 1, 0, 0>>, <<0, 0, 1, 0>>, <<0, 0, 0, 1>>>>

\* world transforms: identity, a translation, a mirror-and-scale, a quarter
\* turn about z with a translation, a shear
Transforms ==
    {IdentityMatrix,
     <<<<1, 0, 0, 2>>, <<0, 1, 0, -3>>, <<0, 0, 1, 1>>, <<0, 0, 0, 1>>>>,
     <<<<-2, 0, 0, 0>>, <<0, 3, 0, 0>>, <<0, 0, -1, 0>>, <<0, 0, 0, 1>>>>,
     <<<<0, -1, 0, 1>>, <<1, 0, 0, 0>>, <<0, 0, 1, -1>>, <<0, 0, 0, 1>>>>,
     <<<<1, 1, 0, 0>>, <<0, 1, -1, 0>>, <<1, 0, 1, 0>>, <<0, 0, 0, 1>>>>}

\* the eight corners of the box lo..hi in the order Blender lists them
BoxCorners(lo, hi) ==
    <<<<lo[1], lo[2], lo[3]>>, <<lo[1], lo[2], hi[3]>>,
      <<lo[1], hi[2], hi[3]>>, <<lo[1], hi[2], lo[3]>>,
      <<hi[1], lo[2], lo[3]>>, <<hi[1], lo[2], hi[3]>>,
      <<hi[1], hi[2], hi[3]>>, <<hi[1], hi[2], lo[3]>>>>

Reversed(s) == [k \in 1..Len(s) |-> s[Len(s) + 1 - k]]

Rotated(s, n) == [k \in 1..Len(s) |-> s[((k - 1 + n) % Len(s)) + 1]]

Coords == (0 - CoordMax)..CoordMax

\* bound_box values of eight corners: the boxes of three sizes (one of them
\* flat) at every place over Coords, in three traversal orders, and every
\* list of eight points drawn from two points
EightCorners ==
    LET boxes == {BoxCorners(lo, <<lo[1] + size[1], lo[2] + size[2],
                                   lo[3] + size[3]>>) :
                    lo \in Coords \X Coords \X Coords,
                    size \in {<<0, 0, 0>>, <<1, 2, 1>>, <<2, 1, 3>>}}
    IN  boxes
        \cup {Reversed(b) : b \in boxes}
        \cup {Rotated(b, 3) : b \in boxes}
        \cup [1..8 -> {<<-1, 0, 1>>, <<1, 1, -1>>}]

UnitBox == BoxCorners(<<-1, -1, -1>>, <<1, 1, 1>>)

\* bound_box values that do not hold eight corners
OtherCorners == {<<>>, SubSeq(UnitBox, 1, 7), Append(UnitBox, <<0, 0, 0>>)}

\* vertex-group weights: floats, and a host value json cannot encode
NotANumber == [kind |-> "object", v |-> 0]
Group(g, w) == [group |-> g, weight |-> w]

\* the group memberships a vertex may carry
GroupLists ==
    {<<>>,
     <<Group(0, Float(1))>>,
     <<Group(0, Float(0)), Group(1, Float(1))>>,
     <<Group(2, Float(1)), Group(0, Float(0)), Group(1, Float(0))>>,
     <<Group(1, NotANumber)>>}

Vertex(k, groups) == [co |-> <<k, k % 2, 0 - k>>, groups |-> groups]

FourVertices == [k \in 1..4 |-> Vertex(k, <<>>)]

Normals == {<<0, 0, 1>>, <<1, 0, 0>>}

\* a polygon over four vertices: n consecutive vertices from vertex s on
Polygon(n, s, normal, loop_start) ==
    [vertices |-> [k \in 1..n |-> (s + k - 1) % 4],
     normal |-> normal,
     loop_start |-> loop_start]

Quad == Polygon(4, 0, <<0, 0, 1>>, 0)

TotalLoops(polygons) == Sum([f \in 1..Len(polygons) |-> Len(polygons[f].vertices)])

\* the polygons with their loops laid out in the order given: the loops of
\* polygon f follow those of every polygon placed before it
LaidOut(polygons, order) ==
    [f \in 1..Len(polygons) |->
        [polygons[f] EXCEPT !.loop_start =
            Sum([g \in 1..Len(polygons) |->
                    IF order[g] < order[f] THEN Len(polygons[g].vertices)
                    ELSE 0])]]

Orders(n) == {p \in [1..n -> 1..n] : \A f, g \in 1..n : f # g => p[f] # p[g]}

\* triangles and quads
Polygons ==
    {Polygon(n, s, normal, 0) : n \in {3, 4}, s \in {0, 1}, normal \in Normals}

Parents ==
    {None,
     [isNone |-> FALSE, type |-> "ARMATURE", name |-> "Armature"],
     [isNone |-> FALSE, type |-> "EMPTY", name |-> "Empty"]}

ImageNames == SeqsOf({"a", ".", "/"}, 1, MaxNameLen)

\* image: None (as a Python value) or Some(name); no_uv: no UV texture layer
MeshData(polygons, vertices, no_uv, image) ==
    [polygons |-> polygons,
     vertices |-> vertices,
     uv_textures |->
        IF no_uv THEN <<>>
        ELSE <<[data |-> [f \in 1..Len(polygons) |-> [image |-> image]]]>>,
     uv_layers |->
        IF no_uv THEN <<>>
        ELSE <<[data |-> [l \in 1..TotalLoops(polygons) |->
                            [uv |-> <<(l - 1) % 2, ((l - 1) \div 2) % 2>>]]]>>]

Object(type, parent, data, bound_box, matrix_world) ==
    [isNone |-> FALSE, type |-> type, name |-> "Cube", parent |-> parent,
     data |-> data, bound_box |-> bound_box, matrix_world |-> matrix_world]

PlainQuad == MeshData(<<Quad>>, FourVertices, TRUE, None)

\* any polygons in any loop layout (the loops of the polygons are disjoint
\* and fill 0 .. TotalLoops - 1), with and without a texture and a skeleton
TopologyScene(obj) ==
    \E parent \in Parents,
       p \in SeqsOf(Polygons, 0, MaxFaces), no_uv \in BOOLEAN :
        \E order \in Orders(Len(p)) :
            obj = Object("MESH", parent,
                         MeshData(LaidOut(p, order), FourVertices, no_uv,
                                  Some(<<"a", ".", "p">>)),
                         UnitBox, IdentityMatrix)

\* any vertices with any group memberships, under any parent
SkinScene(obj) ==
    \E parent \in Parents, groups \in SeqsOf(GroupLists, 0, MaxVerts) :
        obj = Object("MESH", parent,
                     MeshData(<<>>,
                              [k \in 1..Len(groups) |-> Vertex(k, groups[k])],
                              TRUE, None),
                     UnitBox, IdentityMatrix)

\* any bounding corners under any world transform
BoxScene(obj) ==
    \E bound_box \in EightCorners \cup OtherCorners,
       matrix_world \in Transforms :
        obj = Object("MESH", None, PlainQuad, bound_box, matrix_world)

\* a UV texture layer whose first face has any image, or none
TextureScene(obj) ==
    \E image \in {None} \cup {Some(n) : n \in ImageNames} :
        obj = Object("MESH", None,
                     MeshData(<<Quad>>, FourVertices, FALSE, image),
                     UnitBox, IdentityMatrix)

\* nothing active, or an active object that is no mesh
OtherScene(obj) ==
    \/ obj = None
    \/ obj = Object("CAMERA", None, [lens |-> 35], UnitBox, IdentityMatrix)

---------------------------------------------------------------------------
(* execute, as the host runs it.                                           *)

\* bpy.data.filepath of a project that was never saved is empty
Init ==
    /\ \/ /\ \/ TopologyScene(active_object)
             \/ BoxScene(active_object)
          /\ filepath = "/tmp/cube.blend"
       \/ /\ \/ SkinScene(active_object)
             \/ TextureScene(active_object)
             \/ OtherScene(active_object)
          /\ filepath \in {"", "/tmp/cube.blend"}
    /\ pc = "start"
    /\ mesh_json = None
    /\ stdout = <<>>
    /\ raised = "none"

\* the exceptions lines 34-62 can raise on the active object: the first
\* statement that fails decides
Raises(mesh) ==
    IF mesh.isNone
    THEN {"RuntimeError", "AttributeError"}  \* line 34 if mode_set polls, else 57
    ELSE IF mesh.type # "MESH" THEN {"AttributeError"}    \* line 60
    ELSE IF ~HasUVTextures(mesh) THEN {}
    ELSE IF mesh.data.uv_textures[1].data = <<>> THEN {"IndexError"}  \* 61
    ELSE IF mesh.data.uv_textures[1].data[1].image.isNone
         THEN {"AttributeError"}                                      \* 61
    ELSE {}

\* lines 34-150
Assemble ==
    /\ pc = "start"
    /\ Raises(active_object) = {}
    /\ mesh_json' = Assembled(active_object)
    /\ pc' = "assembled"
    /\ UNCHANGED <<active_object, filepath, stdout, raised>>

AssembleRaises ==
    /\ pc = "start"
    /\ \E e \in Raises(active_object) : raised' = e
    /\ pc' = "raised"
    /\ UNCHANGED <<active_object, filepath, mesh_json, stdout>>

\* line 155
PrintStart ==
    /\ pc = "assembled"
    /\ stdout' = Append(stdout, <<"START_MESH_JSON", filepath, active_object.name>>)
    /\ pc' = "started"
    /\ UNCHANGED <<active_object, filepath, mesh_json, raised>>

\* line 156
PrintJson ==
    /\ pc = "started"
    /\ Encodable(mesh_json)
    /\ stdout' = Append(stdout, <<"JSON", dumps(mesh_json)>>)
    /\ pc' = "dumped"
    /\ UNCHANGED <<active_object, filepath, mesh_json, raised>>

PrintJsonRaises ==
    /\ pc = "started"
    /\ ~Encodable(mesh_json)
    /\ raised' = "TypeError"
    /\ pc' = "raised"
    /\ UNCHANGED <<active_object, filepath, mesh_json, stdout>>

\* lines 157-159
PrintEnd ==
    /\ pc = "dumped"
    /\ stdout' = Append(stdout, <<"END_MESH_JSON", filepath, active_object.name>>)
    /\ pc' = "finished"
    /\ UNCHANGED <<active_object, filepath, mesh_json, raised>>

Next ==
    \/ Assemble
    \/ AssembleRaises
    \/ PrintStart
    \/ PrintJson
    \/ PrintJsonRaises
    \/ PrintEnd

Spec == Init /\ [][Next]_vars

---------------------------------------------------------------------------
(* The properties of the export.                                           *)

\* execute returned {'FINISHED'}: stdout holds the exported document
Exported == pc = "finished"

\* execute is over, one way or the other
Over == pc \in {"finished", "raised"}

IsMesh == ~active_object.isNone /\ active_object.type = "MESH"

polygons == active_object.data.polygons

HasSkeleton ==
    ~active_object.parent.isNone /\ active_object.parent.type = "ARMATURE"

MarkerLines ==
    {k \in 1..Len(stdout) : stdout[k][1] \in {"START_MESH_JSON", "END_MESH_JSON"}}

Framed ==
    /\ Len(stdout) = 3
    /\ stdout[1][1] = "START_MESH_JSON"
    /\ stdout[2][1] = "JSON"
    /\ stdout[3] = <<"END_MESH_JSON", stdout[1][2], stdout[1][3]>>

\* the number of loops of the faces before face f (f counted from 1)
LoopsBefore(f) == Sum([g \in 1..(f - 1) |-> Len(polygons[g].vertices)])

MinOf(S) == CHOOSE x \in S : \A y \in S : x <= y
MaxOf(S) == CHOOSE x \in S : \A y \in S : y <= x

\* C1: once execute is over, stdout holds either the START_MESH_JSON line,
\* the payload line and the END_MESH_JSON line with the same path and mesh
\* name, or no marker line at all, also when json.dumps raised.
C1_FramingIntegrity == Over => (Framed \/ MarkerLines = {})

\* C2: the exported document has one vertex count per face, and the counts
\* add up to the number of position indices and of normal indices.
C2_IndexConsistency ==
    Exported =>
        /\ Len(mesh_json.num_vertices_in_each_face) = Len(polygons)
        /\ Sum(mesh_json.num_vertices_in_each_face)
                = Len(mesh_json.vertex_position_indices)
        /\ Len(mesh_json.vertex_position_indices)
                = Len(mesh_json.vertex_normal_indices)

C2_Witness ==
    /\ Exported
    /\ Len(polygons) >= 2
    /\ Len(polygons[1].vertices) # Len(polygons[2].vertices)
    /\ HasUVTextures(active_object)
    /\ HasSkeleton

\* C3: without a skeleton parent the three group fields of the exported
\* document are null whatever groups the vertices carry; with one they are
\* all non-null, num_groups_for_each_vertex holds the group count of every
\* vertex in vertex order, and the counts add up to the number of group
\* indices and of group weights.
C3_GroupFields ==
    Exported =>
        IF HasSkeleton
        THEN /\ ~mesh_json.vertex_group_indices.isNone
             /\ ~mesh_json.vertex_group_weights.isNone
             /\ ~mesh_json.num_groups_for_each_vertex.isNone
             /\ Len(mesh_json.num_groups_for_each_vertex.val)
                    = Len(active_object.data.vertices)
             /\ \A v \in 1..Len(active_object.data.vertices) :
                    mesh_json.num_groups_for_each_vertex.val[v]
                        = Len(active_object.data.vertices[v].groups)
             /\ Sum(mesh_json.num_groups_for_each_vertex.val)
                    = Len(mesh_json.vertex_group_indices.val)
             /\ Len(mesh_json.vertex_group_indices.val)
                    = Len(mesh_json.vertex_group_weights.val)
        ELSE /\ mesh_json.vertex_group_indices.isNone
             /\ mesh_json.vertex_group_weights.isNone
             /\ mesh_json.num_groups_for_each_vertex.isNone

\* a mesh under a parent that is no armature, with a vertex in two groups
C3_Witness ==
    /\ Exported
    /\ ~active_object.parent.isNone
    /\ ~HasSkeleton
    /\ \E v \in 1..Len(active_object.data.vertices) :
            Len(active_object.data.vertices[v].groups) >= 2

\* C4: vertex_uvs and vertex_uv_indices of the exported document are null
\* together, exactly when the mesh has no UV texture, and then texture_name
\* is null; with a texture both are non-null and there is one UV index per
\* loop.
C4_UVFields ==
    Exported =>
        /\ mesh_json.vertex_uvs.isNone = mesh_json.vertex_uv_indices.isNone
        /\ mesh_json.vertex_uvs.isNone = ~HasUVTextures(active_object)
        /\ mesh_json.vertex_uvs.isNone => mesh_json.texture_name.isNone
        /\ ~mesh_json.vertex_uv_indices.isNone =>
                Len(mesh_json.vertex_uv_indices.val)
                    = Sum(mesh_json.num_vertices_in_each_face)

C4_Witness ==
    /\ Exported
    /\ HasUVTextures(active_object)
    /\ Len(polygons) >= 2
    /\ ~mesh_json.vertex_uvs.isNone

\* C5: with no mesh object active, execute ends with NoActiveMeshError and
\* prints nothing.
C5_NoActiveMeshError ==
    (Over /\ ~IsMesh) => (raised = "NoActiveMeshError" /\ stdout = <<>>)

\* the faces of the mesh do not all have the same number of vertices
MixedFaces ==
    /\ IsMesh
    /\ \E f, g \in 1..Len(polygons) :
            Len(polygons[f].vertices) # Len(polygons[g].vertices)

\* C6: on a mesh whose faces differ in vertex count, execute prints nothing
\* and ends with UnsupportedTopologyError.
C6_MixedTopologyFails ==
    MixedFaces =>
        /\ stdout = <<>>
        /\ Over => raised = "UnsupportedTopologyError"

\* C7: on a mesh whose bound_box does not hold exactly 8 corners, execute
\* prints nothing and ends with MalformedGeometryError.
C7_CornerCountChecked ==
    (IsMesh /\ Len(active_object.bound_box) # 8) =>
        /\ stdout = <<>>
        /\ Over => raised = "MalformedGeometryError"

\* the components on axis a of the corners in world space
WorldComponents(a) ==
    {MatVec(active_object.matrix_world, active_object.bound_box[k])[a] :
        k \in 1..Len(active_object.bound_box)}

\* C8: for 8 corners, lower_left_front is on every axis the least and
\* upper_right_back the greatest component of the transformed corners, in
\* whatever order bound_box lists them.
C8_BoundingBox ==
    (Exported /\ Len(active_object.bound_box) = 8) =>
        \A a \in 1..3 :
            /\ mesh_json.bounding_box.lower_left_front[a]
                    = Float(MinOf(WorldComponents(a)))
            /\ mesh_json.bounding_box.upper_right_back[a]
                    = Float(MaxOf(WorldComponents(a)))
            /\ \A c \in WorldComponents(a) :
                    /\ mesh_json.bounding_box.lower_left_front[a].v <= c
                    /\ c <= mesh_json.bounding_box.upper_right_back[a].v

\* a mirrored and scaled box whose corners are listed from the far end
C8_Witness ==
    /\ Exported
    /\ Len(active_object.bound_box) = 8
    /\ active_object.matrix_world[1][1] < 0
    /\ active_object.bound_box[1][3] > active_object.bound_box[8][3]
    /\ mesh_json.bounding_box.lower_left_front[1].v
            < mesh_json.bounding_box.upper_right_back[1].v

\* C9: the normal index of every loop of face i (counted from 0) is i,
\* vertex_normals holds the normal of face i at 3i, 3i + 1, 3i + 2 and
\* nothing else, so every normal index points at a triple of vertex_normals.
C9_NormalIndices ==
    Exported =>
        /\ Len(mesh_json.vertex_normals) = 3 * Len(polygons)
        /\ \A f \in 1..Len(polygons) :
            /\ \A k \in 1..Len(polygons[f].vertices) :
                    mesh_json.vertex_normal_indices[LoopsBefore(f) + k] = f - 1
            /\ SubSeq(mesh_json.vertex_normals, 3 * f - 2, 3 * f)
                    = polygons[f].normal
        /\ \A k \in 1..Len(mesh_json.vertex_normal_indices) :
                /\ mesh_json.vertex_normal_indices[k] >= 0
                /\ 3 * mesh_json.vertex_normal_indices[k] + 3
                        <= Len(mesh_json.vertex_normals)

C9_Witness ==
    /\ Exported
    /\ Len(polygons) >= 2
    /\ polygons[1].normal # polygons[2].normal
    /\ Len(mesh_json.vertex_normal_indices) >= 7

\* C10 as stated: with a texture, vertex_uv_indices is 0, 1, ..., N - 1 for
\* N loops, whatever loop indices the host gives the faces.
C10_SequentialUVIndices ==
    (Exported /\ HasUVTextures(active_object)) =>
        mesh_json.vertex_uv_indices.val
            = [k \in 1..Sum(mesh_json.num_vertices_in_each_face) |-> k - 1]

\* each face's loops start where those of the face before it end
SequentialLoops ==
    \A f \in 1..Len(polygons) : polygons[f].loop_start = LoopsBefore(f)

\* C10 as amended: with a texture, the UV index of loop k of face f is the
\* loop index the host gives it, loop_start of the face plus k; the indices
\* are 0, 1, ..., N - 1 when the loops of the faces are laid out in face
\* order.
C10_HostUVIndices ==
    (Exported /\ HasUVTextures(active_object)) =>
        /\ \A f \in 1..Len(polygons) :
                \A k \in 1..Len(polygons[f].vertices) :
                    mesh_json.vertex_uv_indices.val[LoopsBefore(f) + k]
                        = polygons[f].loop_start + k - 1
        /\ SequentialLoops =>
                mesh_json.vertex_uv_indices.val
                    = [k \in 1..Sum(mesh_json.num_vertices_in_each_face) |->
                            k - 1]

\* two textured faces, the loops of the second laid out before the first's
C10_Witness ==
    /\ Exported
    /\ HasUVTextures(active_object)
    /\ Len(polygons) >= 2
    /\ polygons[2].loop_start = 0
    /\ mesh_json.vertex_uv_indices.val[1] = polygons[1].loop_start
    /\ mesh_json.vertex_uv_indices.val[1] > 0

===========================================================================
